---- MODULE Spec2Model ----
(***************************************************************************)
(* A model of rusty-math (src/src/lib.rs): fixed-size vectors, a 3x3       *)
(* matrix and the macro-generated vector spaces ThreeDimSpaceV2 and        *)
(* FourDimSpace with their vadd / vadd_mut / vscale / vscale_mut / madd /  *)
(* madd_mut operations.                                                    *)
(*                                                                         *)
(* The scalar type of both spaces is u32.  A u32 value n is the record     *)
(* [hi |-> n \div 2^16, lo |-> n % 2^16] of its two 16-bit halves, so that  *)
(* all 2^32 values and the overflow at u32::MAX are the program's own      *)
(* while every intermediate number stays below 2^31.  `+=` and `*=` panic  *)
(* on overflow when the crate is built with overflow checks (the dev and   *)
(* test profiles) and wrap modulo 2^32 when it is built without them (the  *)
(* release profile).  The build profile is the variable overflow_checks.   *)
(***************************************************************************)
EXTENDS Integers, Sequences, FiniteSets

\* Longest sequence of calls of one session.
MaxCalls == 2

\* u32::BITS.
Bits == 32

RECURSIVE Pow2(_)
Pow2(n) == IF n = 0 THEN 1 ELSE 2 * Pow2(n - 1)

\* 2^16: the number of values of one half of a u32.
Half == Pow2(Bits \div 2)

\* 2^8: the number of values of one byte of a half.
Byte == Pow2(Bits \div 4)

\* The u32 of value n, for a literal 0 <= n < 2^31.
U32(n) == [hi |-> n \div Half, lo |-> n % Half]

\* u32::MAX = 4294967295 = 0xFFFF_FFFF.
ScalarMax == [hi |-> Half - 1, lo |-> Half - 1]

Min(a, b) == IF a < b THEN a ELSE b

VARIABLES
    overflow_checks,  \* build profile: TRUE = overflow checks on (dev/test)
    space,            \* the space the session uses
    u, v,             \* two vectors of the space (u is also a &mut target), or <<>>
    s,                \* a scalar of the space, or <<>>
    result,           \* the vector returned by the last vadd / vscale, <<>> before
    x, y,             \* two 3x3 matrices (x is also a &mut target), or <<>>
    mresult,          \* the matrix returned by the last madd, <<>> before
    panicked,         \* TRUE once an operation has panicked
    last,             \* the last call: its name, target and operands before it
    calls             \* number of calls made

vars == <<overflow_checks, space, u, v, s, result, x, y, mresult, panicked, last, calls>>

----------------------------------------------------------------------------
(* Containers *)

\* Number of elements of the space's vector type: Vector3 or the test's Vector4.
Dim(sp) == IF sp = "ThreeDimSpaceV2" THEN 3 ELSE 4

Spaces == {"ThreeDimSpaceV2", "FourDimSpace"}

\* impl MultiplicativeIdentity: multiplicative_identity() returns 1.
multiplicative_identity == 1

\* Mutant of additive_identity: the body of the neighbouring impl
\* (MultiplicativeIdentity) pasted into it.
additive_identity_pasted == multiplicative_identity

\* impl AdditiveIdentity: additive_identity() returns 0.
additive_identity == 0

\* The vector of n additive identities.
ZeroVector(n) == [i \in 1..n |-> U32(additive_identity)]

\* The 3x3 matrix of additive identities.
ZeroMatrix == [r \in 1..3 |-> ZeroVector(3)]

----------------------------------------------------------------------------
(* Scalar arithmetic: u32's AddAssign and MulAssign *)

\* l + r on u32, by halves: whether it passes u32::MAX, and its value modulo 2^32.
Sum32(l, r) ==
    LET lo == l.lo + r.lo
        hi == l.hi + r.hi + (lo \div Half)
    IN  [overflow |-> hi >= Half, wrapped |-> [hi |-> hi % Half, lo |-> lo % Half]]

\* a * b for two 16-bit halves, as the two halves of the 32-bit product.
Mul16(a, b) ==
    LET p1  == (a \div Byte) * b
        p0  == (a % Byte) * b
        mid == (p1 % Byte) * Byte + p0
    IN  [hi |-> (p1 \div Byte) + (mid \div Half), lo |-> mid % Half]

\* val * scalar on u32, by halves: whether it passes u32::MAX, and its value
\* modulo 2^32.
Product32(val, scalar) ==
    LET ll == Mul16(val.lo, scalar.lo)
        hl == Mul16(val.hi, scalar.lo)
        lh == Mul16(val.lo, scalar.hi)
        hi == ll.hi + hl.lo + lh.lo
    IN  [overflow |-> \/ (val.hi > 0 /\ scalar.hi > 0)
                      \/ hl.hi > 0 \/ lh.hi > 0
                      \/ hi >= Half,
         wrapped  |-> [hi |-> hi % Half, lo |-> ll.lo]]

\* Mutant of add_assign: an overflowing sum leaves l as it was (a checked_add whose
\* failure is dropped).
add_assign_dropped(oc, l, r) ==
    LET sum == Sum32(l, r)
    IN  IF sum.overflow
        THEN [panicked |-> FALSE, val |-> l]
        ELSE [panicked |-> FALSE, val |-> sum.wrapped]

\* l.add_assign(r): the new value of l, or a panic on overflow under overflow checks
\* (l is then left as it was).
add_assign(oc, l, r) ==
    LET sum == Sum32(l, r)
    IN  IF sum.overflow /\ oc
        THEN [panicked |-> TRUE, val |-> l]
        ELSE [panicked |-> FALSE, val |-> sum.wrapped]

\* val.mul_assign(scalar): the new value of val, or a panic on overflow under
\* overflow checks.
mul_assign(oc, val, scalar) ==
    LET product == Product32(val, scalar)
    IN  IF product.overflow /\ oc
        THEN [panicked |-> TRUE, val |-> val]
        ELSE [panicked |-> FALSE, val |-> product.wrapped]

----------------------------------------------------------------------------
(* Vector operations generated by vector_space_inner! *)

\* Mutant of vadd_mut_from: the zip is replaced by the first element of rhs, so
\* every position of lhs is combined with position 1 of rhs.
RECURSIVE vadd_mut_from_first(_, _, _, _)
vadd_mut_from_first(oc, lhs, rhs, i) ==
    IF i > Min(Len(lhs), Len(rhs))
    THEN [panicked |-> FALSE, vec |-> lhs]
    ELSE LET a == add_assign(oc, lhs[i], rhs[1])
         IN  IF a.panicked
             THEN [panicked |-> TRUE, vec |-> lhs]
             ELSE vadd_mut_from_first(oc, [lhs EXCEPT ![i] = a.val], rhs, i + 1)

\* The for_each of vadd_mut from position i on: lhs.0.iter_mut().zip(rhs.0) pairs
\* position i of lhs with position i of rhs, up to the shorter of the two, and
\* l.add_assign(r) updates lhs in place.  A panic leaves the positions not yet
\* visited (and the one that overflowed) as they were.
RECURSIVE vadd_mut_from(_, _, _, _)
vadd_mut_from(oc, lhs, rhs, i) ==
    IF i > Min(Len(lhs), Len(rhs))
    THEN [panicked |-> FALSE, vec |-> lhs]
    ELSE LET a == add_assign(oc, lhs[i], rhs[i])
         IN  IF a.panicked
             THEN [panicked |-> TRUE, vec |-> lhs]
             ELSE vadd_mut_from(oc, [lhs EXCEPT ![i] = a.val], rhs, i + 1)

\* vadd_mut(&self, lhs: &mut Vector, rhs: &Vector): lhs after the call.
vadd_mut(oc, lhs, rhs) == vadd_mut_from(oc, lhs, rhs, 1)

\* Mutant of vadd: vadd_mut works on a second copy and the untouched temp is returned.
vadd_stale(oc, lhs, rhs) ==
    LET temp == lhs
        r    == vadd_mut(oc, temp, rhs)
    IN  IF r.panicked THEN [panicked |-> TRUE, value |-> <<>>]
                      ELSE [panicked |-> FALSE, value |-> temp]

\* vadd(&self, lhs, rhs) -> Vector: copies lhs into temp, vadd_mut(temp, rhs),
\* returns temp.  A panic returns nothing (value <<>>).
vadd(oc, lhs, rhs) ==
    LET temp == lhs
        r    == vadd_mut(oc, temp, rhs)
    IN  IF r.panicked THEN [panicked |-> TRUE, value |-> <<>>]
                      ELSE [panicked |-> FALSE, value |-> r.vec]

\* The for_each of vscale_mut from position i on: val.mul_assign(scalar) for
\* every element of the vector, in place.
RECURSIVE vscale_mut_from(_, _, _, _)
vscale_mut_from(oc, vector, scalar, i) ==
    IF i > Len(vector)
    THEN [panicked |-> FALSE, vec |-> vector]
    ELSE LET m == mul_assign(oc, vector[i], scalar)
         IN  IF m.panicked
             THEN [panicked |-> TRUE, vec |-> vector]
             ELSE vscale_mut_from(oc, [vector EXCEPT ![i] = m.val], scalar, i + 1)

\* Mutant of vscale_mut: the iteration skips the first element.
vscale_mut_skip(oc, vector, scalar) == vscale_mut_from(oc, vector, scalar, 2)

\* vscale_mut(&self, vector: &mut Vector, scalar: &Scalar): vector after the call.
vscale_mut(oc, vector, scalar) == vscale_mut_from(oc, vector, scalar, 1)

\* vscale(&self, vector, scalar) -> Vector: copies vector into buf,
\* vscale_mut(buf, scalar), returns buf.
vscale(oc, vector, scalar) ==
    LET buf == vector
        r   == vscale_mut(oc, buf, scalar)
    IN  IF r.panicked THEN [panicked |-> TRUE, value |-> <<>>]
                      ELSE [panicked |-> FALSE, value |-> r.vec]

----------------------------------------------------------------------------
(* Matrix operations of ThreeDimSpaceV2 *)

\* The inner for_each of madd_mut on one row from column j on:
\* l_row.0.iter_mut().zip(r_row.0).for_each(|(l, r)| l.add_assign(r)).
RECURSIVE madd_row_from(_, _, _, _)
madd_row_from(oc, l_row, r_row, j) ==
    IF j > Min(Len(l_row), Len(r_row))
    THEN [panicked |-> FALSE, vec |-> l_row]
    ELSE LET a == add_assign(oc, l_row[j], r_row[j])
         IN  IF a.panicked
             THEN [panicked |-> TRUE, vec |-> l_row]
             ELSE madd_row_from(oc, [l_row EXCEPT ![j] = a.val], r_row, j + 1)

\* Mutant of madd_mut_from: every row of lhs is combined with the first row of rhs.
RECURSIVE madd_mut_from_first(_, _, _, _)
madd_mut_from_first(oc, lhs, rhs, i) ==
    IF i > Min(Len(lhs), Len(rhs))
    THEN [panicked |-> FALSE, mat |-> lhs]
    ELSE LET row == madd_row_from(oc, lhs[i], rhs[1], 1)
         IN  IF row.panicked
             THEN [panicked |-> TRUE, mat |-> [lhs EXCEPT ![i] = row.vec]]
             ELSE madd_mut_from_first(oc, [lhs EXCEPT ![i] = row.vec], rhs, i + 1)

\* The outer for_each of madd_mut from row i on: lhs.0.iter_mut().zip(rhs.0).
RECURSIVE madd_mut_from(_, _, _, _)
madd_mut_from(oc, lhs, rhs, i) ==
    IF i > Min(Len(lhs), Len(rhs))
    THEN [panicked |-> FALSE, mat |-> lhs]
    ELSE LET row == madd_row_from(oc, lhs[i], rhs[i], 1)
         IN  IF row.panicked
             THEN [panicked |-> TRUE, mat |-> [lhs EXCEPT ![i] = row.vec]]
             ELSE madd_mut_from(oc, [lhs EXCEPT ![i] = row.vec], rhs, i + 1)

\* madd_mut(&self, lhs: &mut Matrix, rhs: &Matrix): lhs after the call.
madd_mut(oc, lhs, rhs) == madd_mut_from(oc, lhs, rhs, 1)

\* madd(&self, lhs, rhs) -> Matrix: copies lhs into temp, madd_mut(temp, rhs),
\* returns temp.
madd(oc, lhs, rhs) ==
    LET temp == lhs
        r    == madd_mut(oc, temp, rhs)
    IN  IF r.panicked THEN [panicked |-> TRUE, value |-> <<>>]
                      ELSE [panicked |-> FALSE, value |-> r.mat]

----------------------------------------------------------------------------
(* Inputs of a session *)

\* The vector / the matrix of the u32 values written as literals.
Vec(ns) == [i \in 1..Len(ns) |-> U32(ns[i])]

Mat(rows) == [r \in 1..Len(rows) |-> Vec(rows[r])]

\* Scalars the vectors are built from: the additive identity, one and u32::MAX
\* (the four-element vectors leave out one, to keep their number small).
Elements(sp) ==
    IF sp = "ThreeDimSpaceV2" THEN {U32(additive_identity), U32(1), ScalarMax}
                              ELSE {U32(additive_identity), ScalarMax}

\* Scale factors.
Scalars == {U32(0), U32(2), ScalarMax}

\* The operands of the tests three_dim_space and four_dim_space.
TestVectors(sp) ==
    IF sp = "ThreeDimSpaceV2" THEN {Vec(<<1, 2, 3>>), Vec(<<3, 6, 9>>)}
                              ELSE {Vec(<<2, 4, 6, 8>>), Vec(<<3, 6, 9, 12>>)}

\* Vector3<u32> / Vector4<u32> values a session starts from.
Vectors(sp) == [1..Dim(sp) -> Elements(sp)] \cup TestVectors(sp)

\* The operands of the test matrix_add.
TestX == Mat(<<<<0, 1, 2>>, <<3, 4, 5>>, <<6, 7, 8>>>>)

TestY == Mat(<<<<2, 4, 8>>, <<16, 32, 64>>, <<128, 256, 512>>>>)

\* Rows the matrices are built from.
MatrixRows == {ZeroVector(3), <<U32(1), ScalarMax, U32(0)>>, <<ScalarMax, U32(2), U32(1)>>}

\* Matrix3X3<u32> values a session starts from.
Matrices == [1..3 -> MatrixRows] \cup {TestX, TestY}

\* A local that the session has not declared.
Unbound == <<>>

NoCall == [op |-> "none", tgt |-> "none", lhs |-> Unbound, rhs |-> Unbound,
           scalar |-> Unbound]

\* A session is one test-like function body: it declares its operands, then calls
\* operations of its space on them.  Like the tests it declares either vectors
\* (and a scalar) or matrices; the other locals do not exist in it.
Init ==
    /\ overflow_checks \in BOOLEAN
    /\ space \in Spaces
    /\ \/ /\ u \in Vectors(space)
          /\ v \in Vectors(space)
          /\ s \in Scalars
          /\ x = Unbound
          /\ y = Unbound
       \/ /\ space = "ThreeDimSpaceV2"
          /\ u = Unbound
          /\ v = Unbound
          /\ s = Unbound
          /\ x \in Matrices
          /\ y \in Matrices
    /\ result = Unbound
    /\ mresult = Unbound
    /\ panicked = FALSE
    /\ last = NoCall
    /\ calls = 0

----------------------------------------------------------------------------
(* Calls *)

\* A call can be made while the session has not panicked.
CanCall == ~panicked /\ calls < MaxCalls

\* The session has vectors / matrices to call the operations on.
HasVectors == u # Unbound /\ v # Unbound /\ s # Unbound

HasMatrices == x # Unbound /\ y # Unbound

\* Mutant of VAddCall: vadd adds into its left operand instead of a copy of it.
VAddCallInPlace ==
    /\ CanCall
    /\ HasVectors
    /\ LET r == vadd_mut(overflow_checks, u, v)
       IN  /\ panicked' = r.panicked
           /\ u' = r.vec
           /\ result' = IF r.panicked THEN result ELSE r.vec
    /\ last' = [op |-> "vadd", tgt |-> "result", lhs |-> u, rhs |-> v, scalar |-> s]
    /\ calls' = calls + 1
    /\ UNCHANGED <<overflow_checks, space, v, s, x, y, mresult>>

\* let result = space.vadd(&u, &v);
VAddCall ==
    /\ CanCall
    /\ HasVectors
    /\ LET r == vadd(overflow_checks, u, v)
       IN  /\ panicked' = r.panicked
           /\ result' = IF r.panicked THEN result ELSE r.value
    /\ last' = [op |-> "vadd", tgt |-> "result", lhs |-> u, rhs |-> v, scalar |-> s]
    /\ calls' = calls + 1
    /\ UNCHANGED <<overflow_checks, space, u, v, s, x, y, mresult>>

\* space.vadd_mut(&mut u, &v);  or  space.vadd_mut(&mut result, &v);
VAddMutCall ==
    /\ CanCall
    /\ HasVectors
    /\ \E tgt \in {"u", "result"} :
         /\ tgt = "result" => result # Unbound
         /\ LET lhs == IF tgt = "u" THEN u ELSE result
                r   == vadd_mut(overflow_checks, lhs, v)
            IN  /\ panicked' = r.panicked
                /\ u' = IF tgt = "u" THEN r.vec ELSE u
                /\ result' = IF tgt = "result" THEN r.vec ELSE result
                /\ last' = [op |-> "vadd_mut", tgt |-> tgt, lhs |-> lhs, rhs |-> v,
                            scalar |-> s]
    /\ calls' = calls + 1
    /\ UNCHANGED <<overflow_checks, space, v, s, x, y, mresult>>

\* let result = space.vscale(&u, &s);
VScaleCall ==
    /\ CanCall
    /\ HasVectors
    /\ LET r == vscale(overflow_checks, u, s)
       IN  /\ panicked' = r.panicked
           /\ result' = IF r.panicked THEN result ELSE r.value
    /\ last' = [op |-> "vscale", tgt |-> "result", lhs |-> u, rhs |-> v, scalar |-> s]
    /\ calls' = calls + 1
    /\ UNCHANGED <<overflow_checks, space, u, v, s, x, y, mresult>>

\* space.vscale_mut(&mut u, &s);  or  space.vscale_mut(&mut result, &s);
VScaleMutCall ==
    /\ CanCall
    /\ HasVectors
    /\ \E tgt \in {"u", "result"} :
         /\ tgt = "result" => result # Unbound
         /\ LET vector == IF tgt = "u" THEN u ELSE result
                r      == vscale_mut(overflow_checks, vector, s)
            IN  /\ panicked' = r.panicked
                /\ u' = IF tgt = "u" THEN r.vec ELSE u
                /\ result' = IF tgt = "result" THEN r.vec ELSE result
                /\ last' = [op |-> "vscale_mut", tgt |-> tgt, lhs |-> vector, rhs |-> v,
                            scalar |-> s]
    /\ calls' = calls + 1
    /\ UNCHANGED <<overflow_checks, space, v, s, x, y, mresult>>

\* let mresult = space.madd(&x, &y);   (only ThreeDimSpaceV2 implements MAdd)
MAddCall ==
    /\ CanCall
    /\ space = "ThreeDimSpaceV2"
    /\ HasMatrices
    /\ LET r == madd(overflow_checks, x, y)
       IN  /\ panicked' = r.panicked
           /\ mresult' = IF r.panicked THEN mresult ELSE r.value
    /\ last' = [op |-> "madd", tgt |-> "mresult", lhs |-> x, rhs |-> y, scalar |-> s]
    /\ calls' = calls + 1
    /\ UNCHANGED <<overflow_checks, space, u, v, s, result, x, y>>

\* space.madd_mut(&mut x, &y);  or  space.madd_mut(&mut mresult, &y);
MAddMutCall ==
    /\ CanCall
    /\ space = "ThreeDimSpaceV2"
    /\ HasMatrices
    /\ \E tgt \in {"x", "mresult"} :
         /\ tgt = "mresult" => mresult # Unbound
         /\ LET lhs == IF tgt = "x" THEN x ELSE mresult
                r   == madd_mut(overflow_checks, lhs, y)
            IN  /\ panicked' = r.panicked
                /\ x' = IF tgt = "x" THEN r.mat ELSE x
                /\ mresult' = IF tgt = "mresult" THEN r.mat ELSE mresult
                /\ last' = [op |-> "madd_mut", tgt |-> tgt, lhs |-> lhs, rhs |-> y,
                            scalar |-> s]
    /\ calls' = calls + 1
    /\ UNCHANGED <<overflow_checks, space, u, v, s, result, y>>

Next ==
    \/ VAddCall
    \/ VAddMutCall
    \/ VScaleCall
    \/ VScaleMutCall
    \/ MAddCall
    \/ MAddMutCall

Spec == Init /\ [][Next]_vars

----------------------------------------------------------------------------
(* Properties *)

\* The value the target of the last mutating call holds now.
TargetNow == IF last.tgt = "u" THEN u
             ELSE IF last.tgt = "result" THEN result
             ELSE IF last.tgt = "x" THEN x
             ELSE mresult

\* The four bytes of a u32, least significant first.
Bytes(n) == <<n.lo % Byte, n.lo \div Byte, n.hi % Byte, n.hi \div Byte>>

\* Column sums to bytes, least significant first, the last carry as one more byte.
RECURSIVE Normalize(_, _, _)
Normalize(cols, k, carry) ==
    IF k > Len(cols)
    THEN <<carry>>
    ELSE <<(cols[k] + carry) % Byte>> \o Normalize(cols, k + 1, (cols[k] + carry) \div Byte)

\* The integer a + b of two u32 values, as five bytes.
ExactSum(a, b) == Normalize([k \in 1..4 |-> Bytes(a)[k] + Bytes(b)[k]], 1, 0)

\* Byte i of as times the byte of bs that meets it in column k of the long product.
Term(as, bs, i, k) == IF k + 1 - i \in 1..4 THEN as[i] * bs[k + 1 - i] ELSE 0

\* The integer a * b of two u32 values, as eight bytes.
ExactProduct(a, b) ==
    LET as == Bytes(a)
        bs == Bytes(b)
    IN  Normalize([k \in 1..7 |-> Term(as, bs, 1, k) + Term(as, bs, 2, k)
                                  + Term(as, bs, 3, k) + Term(as, bs, 4, k)], 1, 0)

\* An integer given by its bytes is at most u32::MAX.
Fits32(bytes) == \A k \in 5..Len(bytes) : bytes[k] = 0

\* An integer given by its bytes, modulo 2^32, as a u32.
Low32(bytes) == [hi |-> bytes[4] * Byte + bytes[3], lo |-> bytes[2] * Byte + bytes[1]]

\* Some position of the operands of the last call passes u32::MAX when added.
SumOverflows == \E i \in 1..Len(last.lhs) : ~Fits32(ExactSum(last.lhs[i], last.rhs[i]))

\* C1: a vadd(u, v) that returns yields a vector of the operands' length N whose
\* i-th element is the u32 sum of u[i] and v[i], for every position i: the integer
\* u[i] + v[i] itself under overflow checks (a call that returns had no overflow),
\* and u[i] + v[i] modulo 2^32 without them.
C1_VAddElementwise ==
    (last.op = "vadd" /\ ~panicked) =>
        /\ Len(result) = Dim(space)
        /\ Len(last.lhs) = Dim(space) /\ Len(last.rhs) = Dim(space)
        /\ \A i \in 1..Dim(space) :
              /\ result[i] = Low32(ExactSum(last.lhs[i], last.rhs[i]))
              /\ overflow_checks => Fits32(ExactSum(last.lhs[i], last.rhs[i]))

\* The test four_dim_space: [2,4,6,8] + [3,6,9,12] = [5,10,15,20].
C1_Witness ==
    /\ last.op = "vadd" /\ ~panicked /\ space = "FourDimSpace"
    /\ last.lhs = Vec(<<2, 4, 6, 8>>) /\ last.rhs = Vec(<<3, 6, 9, 12>>)
    /\ result = Vec(<<5, 10, 15, 20>>)

\* C2: a vscale(v, s) that returns yields a vector of v's length N whose i-th
\* element is the u32 product of v[i] and s, for every position i: the integer
\* v[i] * s itself under overflow checks, and v[i] * s modulo 2^32 without them.
C2_VScaleElementwise ==
    (last.op = "vscale" /\ ~panicked) =>
        /\ Len(result) = Dim(space)
        /\ Len(last.lhs) = Dim(space)
        /\ \A i \in 1..Dim(space) :
              /\ result[i] = Low32(ExactProduct(last.lhs[i], last.scalar))
              /\ overflow_checks => Fits32(ExactProduct(last.lhs[i], last.scalar))

\* vscale([3,6,9], 2) = [6,12,18].
C2_Witness ==
    /\ last.op = "vscale" /\ ~panicked
    /\ last.lhs = Vec(<<3, 6, 9>>) /\ last.scalar = U32(2)
    /\ result = Vec(<<6, 12, 18>>)

\* C3: row r of madd(x, y) is vadd(row r of x, row r of y) for every row r, and
\* madd panics only if the vadd of some pair of rows does.
C3_MAddRowwise ==
    last.op = "madd" =>
        /\ ~panicked =>
              /\ Len(mresult) = 3
              /\ \A r \in 1..3 :
                    LET w == vadd(overflow_checks, last.lhs[r], last.rhs[r])
                    IN  ~w.panicked /\ mresult[r] = w.value
        /\ panicked =>
              \E r \in 1..3 : vadd(overflow_checks, last.lhs[r], last.rhs[r]).panicked

\* The test matrix_add.
C3_Witness ==
    /\ last.op = "madd" /\ ~panicked
    /\ last.lhs = TestX /\ last.rhs = TestY
    /\ mresult = Mat(<<<<2, 5, 10>>, <<19, 36, 69>>, <<134, 263, 520>>>>)

\* C4: addition is commutative: a vadd(u, v) has the outcome of vadd(v, u), and a
\* madd(x, y) the outcome of madd(y, x), also when a sum exceeds the scalar's
\* maximum (both panic, or both return the same wrapped value).
C4_AddCommutes ==
    /\ last.op = "vadd" =>
          LET w == vadd(overflow_checks, last.rhs, last.lhs)
          IN  panicked = w.panicked /\ (~panicked => result = w.value)
    /\ last.op = "madd" =>
          LET w == madd(overflow_checks, last.rhs, last.lhs)
          IN  panicked = w.panicked /\ (~panicked => mresult = w.value)

\* A vadd of two different operands that returned although a sum overflowed.
C4_Witness ==
    /\ last.op = "vadd" /\ ~panicked
    /\ last.lhs # last.rhs
    /\ SumOverflows

\* C5: scaling distributes over addition, with both sides producing a result:
\* once vadd(u, v) has been called it has returned, scaling its result by s
\* returns, vadd(vscale(u, s), vscale(v, s)) returns, and the two values agree.
C5_ScaleDistributes ==
    last.op = "vadd" =>
        LET us    == vscale(overflow_checks, last.lhs, last.scalar)
            vs    == vscale(overflow_checks, last.rhs, last.scalar)
            left  == vscale(overflow_checks, result, last.scalar)
            right == vadd(overflow_checks, us.value, vs.value)
        IN  /\ ~panicked /\ ~left.panicked
            /\ ~us.panicked /\ ~vs.panicked /\ ~right.panicked
            /\ left.value = right.value

\* C6: every operation completes and yields a result: no call panics.
C6_NoPanic == ~panicked

\* C7: arithmetic wraps: every vadd returns the elementwise sums modulo 2^32
\* and every vscale the elementwise products modulo 2^32.
C7_Wraparound ==
    /\ last.op = "vadd" =>
          /\ ~panicked
          /\ \A i \in 1..Dim(space) :
                result[i] = Low32(ExactSum(last.lhs[i], last.rhs[i]))
    /\ last.op = "vscale" =>
          /\ ~panicked
          /\ \A i \in 1..Dim(space) :
                result[i] = Low32(ExactProduct(last.lhs[i], last.scalar))

\* C8: a mutating call that returns leaves in its left operand the value the
\* non-mutating variant returns for the operands before the call.
C8_MutMatchesPure ==
    ~panicked =>
        /\ last.op = "vadd_mut" =>
              LET w == vadd(overflow_checks, last.lhs, last.rhs)
              IN  ~w.panicked /\ TargetNow = w.value
        /\ last.op = "vscale_mut" =>
              LET w == vscale(overflow_checks, last.lhs, last.scalar)
              IN  ~w.panicked /\ TargetNow = w.value
        /\ last.op = "madd_mut" =>
              LET w == madd(overflow_checks, last.lhs, last.rhs)
              IN  ~w.panicked /\ TargetNow = w.value

\* A vadd_mut that changed u.
C8_Witness ==
    /\ last.op = "vadd_mut" /\ last.tgt = "u" /\ ~panicked
    /\ u # last.lhs

\* One call of C9: what it may change.
C9_Frame ==
    calls' = calls + 1 =>
        /\ overflow_checks' = overflow_checks /\ space' = space
        /\ v' = v /\ s' = s /\ y' = y
        /\ last'.op \in {"vadd", "vscale"} =>
              u' = u /\ x' = x /\ mresult' = mresult
        /\ last'.op = "madd" =>
              u' = u /\ x' = x /\ result' = result
        /\ last'.op \in {"vadd_mut", "vscale_mut", "madd_mut"} =>
              /\ last'.tgt # "u" => u' = u
              /\ last'.tgt # "result" => result' = result
              /\ last'.tgt # "x" => x' = x
              /\ last'.tgt # "mresult" => mresult' = mresult

\* C9: the non-mutating vadd, vscale and madd change neither operand (only the
\* variable that receives the result), and the mutating vadd_mut, vscale_mut and
\* madd_mut change only their left operand: the right operand, the scalar and
\* every other container, an earlier result included, stay as they were.
C9_OnlyTargetChanges == [][C9_Frame]_vars

\* A result of vadd mutated afterwards (u is still the operand it was built from).
C9_Witness ==
    /\ calls = 2 /\ ~panicked
    /\ last.op = "vscale_mut" /\ last.tgt = "result"
    /\ result # last.lhs
    /\ \E i \in 1..Dim(space) :
          last.lhs[i] = Low32(ExactSum(u[i], v[i])) /\ v[i] # U32(0)

\* C10: the all-zero vector and the all-zero matrix are neutral: vadd(u, z) = u,
\* vadd(z, u) = u, vadd_mut(u, z) leaves u as it was, madd(x, Z) = x and
\* madd(Z, x) = x, and none of these calls panics.
C10_ZeroNeutral ==
    /\ (last.op = "vadd" /\ last.rhs = ZeroVector(Dim(space))) =>
          ~panicked /\ result = last.lhs
    /\ (last.op = "vadd" /\ last.lhs = ZeroVector(Dim(space))) =>
          ~panicked /\ result = last.rhs
    /\ (last.op = "vadd_mut" /\ last.rhs = ZeroVector(Dim(space))) =>
          ~panicked /\ TargetNow = last.lhs
    /\ (last.op = "madd" /\ last.rhs = ZeroMatrix) =>
          ~panicked /\ mresult = last.lhs
    /\ (last.op = "madd" /\ last.lhs = ZeroMatrix) =>
          ~panicked /\ mresult = last.rhs

\* vadd(u, z) called with a u that holds u32::MAX.
C10_Witness ==
    /\ last.op = "vadd" /\ last.rhs = ZeroVector(Dim(space))
    /\ \E i \in 1..Dim(space) : last.lhs[i] = ScalarMax
    /\ result = last.lhs

====
